---------------------------- MODULE Spec2Model ----------------------------
(***************************************************************************)
(* A model of the core of areb0s/ocr:                                      *)
(*   - the call serializer of Ocr.detect (packages/common/src/Ocr.ts),     *)
(*   - the browser ImageRaw normalizer (ImageRaw.from and its converters,  *)
(*     unnamed/part_001), with the execution environment it probes.        *)
(* Each part has its own specification over the module's variables; the    *)
(* variables of the other part stay at their initial value.                *)
(***************************************************************************)
EXTENDS Integers, Sequences, FiniteSets, TLC

(***************************************************************************)
(* Bounds of the model.                                                    *)
(***************************************************************************)
\* detect calls made in one behaviour, numbered in the order they are made
MaxCalls == 3
\* Ocr instances the calls are spread over, numbered in the order of their
\* first call
NumInstances == 2

\* largest width and height of a source image, in pixels
MaxDim == 2
\* operations made after the call returned: the caller's writes to its own
\* array and the method calls on the returned image
MaxOps == 1
\* most pixels of an image passed to imageToInput directly
MaxPixels == 4
\* most line images passed to debugBoxImage
MaxBoxes == 2
\* canvases getContext2D is called for
MaxCanvases == 2
\* most calls of getContext2D for one canvas
MaxGets == 3
\* the byte values the caller writes
WriteValues == {0, 255}

Calls == 1..MaxCalls
Instances == 1..NumInstances
Dims == 1..MaxDim

(***************************************************************************)
(* Ocr (Ocr.ts).  A promise is named by the call whose detect created it;  *)
(* InitialPromise(i) is the Promise.resolve() of instance i's field        *)
(* initializer.                                                            *)
(***************************************************************************)
VARIABLES
  mutex,          \* Ocr.#mutex of each instance: the tail promise
  promiseState,   \* "none" (not created) | "pending" | "resolved" | "rejected"
  pc,             \* where each detect call stands
  target,         \* the instance a call was made on (0: not made yet)
  currentMutex,   \* detect's local currentMutex (0: not made yet)
  internalResult, \* how the call's #detectInternal ended: "none" | "ok" | "fail"
  detectResult,   \* how the promise returned by detect settled
  startOrder,     \* per instance, the calls whose #detectInternal has started,
                  \* in start order
  run             \* per call, the values that flow through #detectInternal
                  \* and out of detect

ocrVars == <<mutex, promiseState, pc, target, currentMutex, internalResult,
             detectResult, startOrder, run>>

(***************************************************************************)
(* ImageRaw (unnamed/part_001): one normalization call and the image it    *)
(* returns.                                                                *)
(***************************************************************************)
VARIABLES
  env,      \* the globals the module probes at load time (part_001:14-18)
  input,    \* the argument of ImageRaw.from / ImageRaw.fromImageBitmap
  ipc,      \* where the normalization call stands
  taken,    \* the branch ImageRaw.from dispatched to ("none": not yet)
  outcome,  \* "pending" | "ok" | the message of the Error the call threw
  bitmap,   \* the ImageBitmap in play: its state and the close() calls made
  canvas,   \* the canvas the converter reads from, and whether getContext2D
            \* has cached its context (part_001:21, 43-58)
  args,     \* the arguments of the pending new ImageRaw({data, width, height})
  image,    \* the ImageRaw instance the call made
  heap,     \* the byte buffers behind the typed arrays, by buffer number
  callerExpect, \* the bytes the caller itself put in the array it passed
  ops,      \* the operations made after the call returned
  first,    \* the image of an earlier call that is now passed as input
  steps     \* the fallible steps the call has made: how often each was
            \* attempted, and which of them failed

imgVars == <<env, input, ipc, taken, outcome, bitmap, canvas, args, image, heap,
             callerExpect, ops, first, steps>>

(***************************************************************************)
(* ModelBase (unnamed/part_000): one imageToInput call.                    *)
(***************************************************************************)
VARIABLES
  subject,    \* the image passed to imageToInput: its data, width and height
  reshape,    \* the ReshapeOptions passed: mean and std
  modelData,  \* the ModelData imageToInput returned
  mpc,        \* where the call stands: "idle" | "ready" | "done"
  debug,      \* ModelBase.options and one debugImage / debugBoxImage call
  contexts    \* contextCache (part_001:21) and the calls of getContext2D

modelVars == <<subject, reshape, modelData, mpc, debug, contexts>>

InitialPromise(i) == 0 - i
PromiseIds == Calls \cup {InitialPromise(i) : i \in Instances}

\* The values of one detect call.  lineImages: what detection.run returned
\* (0: nothing yet); recognitionArg: what recognition.run was called with
\* (0: not called); thrown: the stage whose run threw; settled: the state of
\* the promise detect returned, with its value or its error; detections and
\* recognitions: how often the stage was run.
NoRun ==
  [lineImages |-> 0, recognitionArg |-> 0, thrown |-> "none",
   settled |-> [status |-> "pending"], detections |-> 0, recognitions |-> 0]

\* Ocr.ts:50: the lineImages and resized dimensions detection.run returns
\* for a call are that call's own.
DetectionResult(c) == c

\* Ocr.ts:13 and the constructor: a fresh instance holds a resolved promise.
InitOcrUnresolved ==
  /\ mutex = [i \in Instances |-> InitialPromise(i)]
  /\ promiseState = [p \in PromiseIds |-> IF p \in Calls THEN "none" ELSE "pending"]
  /\ pc = [c \in Calls |-> "idle"]
  /\ target = [c \in Calls |-> 0]
  /\ currentMutex = [c \in Calls |-> 0]
  /\ internalResult = [c \in Calls |-> "none"]
  /\ detectResult = [c \in Calls |-> "none"]
  /\ startOrder = [i \in Instances |-> << >>]
  /\ run = [c \in Calls |-> NoRun]
InitOcr ==
  /\ mutex = [i \in Instances |-> InitialPromise(i)]
  /\ promiseState = [p \in PromiseIds |-> IF p \in Calls THEN "none" ELSE "resolved"]
  /\ pc = [c \in Calls |-> "idle"]
  /\ target = [c \in Calls |-> 0]
  /\ currentMutex = [c \in Calls |-> 0]
  /\ internalResult = [c \in Calls |-> "none"]
  /\ detectResult = [c \in Calls |-> "none"]
  /\ startOrder = [i \in Instances |-> << >>]
  /\ run = [c \in Calls |-> NoRun]

\* Ocr.ts:32  const currentMutex = this.#mutex
CapturedMutexStale(i) == InitialPromise(i)
CapturedMutexOfFirstInstance(i) == mutex[1]
CapturedMutex(i) == mutex[i]

\* Ocr.ts:34-36  this.#mutex = new Promise(...): the tail becomes the promise
\* this call created.
NewTailNotStored(i, c) == mutex[i]
NewTail(i, c) == c

\* Ocr.ts:40  await currentMutex: the continuation runs once it has settled.
CanProceedWithoutAwait(c) == TRUE
CanProceed(c) == promiseState[currentMutex[c]] # "pending"

\* Ocr.ts:43-46  finally { releaseMutex!() }: resolve is called whether the
\* body returned or threw (bodyOk), and resolve() never rejects.
MutexRejectedOnFailure(bodyOk) == IF bodyOk THEN "resolved" ELSE "rejected"
MutexHeldOnFailure(bodyOk) == IF bodyOk THEN "resolved" ELSE "pending"
MutexAfterRun(bodyOk) == "resolved"

\* Ocr.ts:42  return await this.#detectInternal(...): detect settles as the
\* body did; when the awaits before it threw, the body never ran.
DetectOutcome(c) == IF internalResult[c] = "ok" THEN "ok" ELSE "fail"

\* The #detectInternal body of call c is executing (Ocr.ts:49-57).
Running(c) == pc[c] \in {"detection", "recognition"}
Started(c) ==
  \E i \in Instances : \E k \in 1..Len(startOrder[i]) : startOrder[i][k] = c

\* Ocr.ts:30-40: the synchronous part of detect, up to its first await.
Detect(c, i) ==
  /\ pc[c] = "idle"
  /\ \A d \in Calls : d < c => pc[d] # "idle"
  /\ \A j \in Instances : j < i => \E d \in Calls : target[d] = j
  /\ currentMutex' = [currentMutex EXCEPT ![c] = CapturedMutex(i)]
  /\ promiseState' = [promiseState EXCEPT ![c] = "pending"]
  /\ mutex' = [mutex EXCEPT ![i] = NewTail(i, c)]
  /\ target' = [target EXCEPT ![c] = i]
  /\ pc' = [pc EXCEPT ![c] = "awaitMutex"]
  /\ UNCHANGED <<internalResult, detectResult, startOrder, run>>
  /\ UNCHANGED <<imgVars, modelVars>>

\* Ocr.ts:40-42: the continuation after await currentMutex.  A rejected
\* promise makes the await throw, which skips the body and enters finally.
AwaitMutex(c) ==
  /\ pc[c] = "awaitMutex"
  /\ CanProceed(c)
  /\ IF promiseState[currentMutex[c]] = "rejected"
       THEN /\ pc' = [pc EXCEPT ![c] = "finally"]
            /\ UNCHANGED startOrder
       ELSE /\ pc' = [pc EXCEPT ![c] = "detection"]
            /\ startOrder' = [startOrder EXCEPT
                                ![target[c]] = Append(startOrder[target[c]], c)]
  /\ UNCHANGED <<mutex, promiseState, target, currentMutex, internalResult,
                 detectResult, run>>
  /\ UNCHANGED <<imgVars, modelVars>>

\* Ocr.ts:50-51: the await of detection.run throws out of #detectInternal
\* when the run failed; only otherwise the next statement is reached.
RecognitionDespiteFailure(ok) == "recognition"
DetectionRunAgain(ok) == IF ok THEN "recognition" ELSE "detection"
AfterDetection(ok) == IF ok THEN "recognition" ELSE "finally"

\* Ocr.ts:51: recognition.run(lineImages, options) gets the lineImages
\* destructured from the result of this call's detection.run.
LineImagesOfEarlierCall(c) ==
  IF \E d \in Calls : run[d].lineImages # 0 /\ d # c
    THEN CHOOSE d \in Calls : run[d].lineImages # 0 /\ d # c
    ELSE run[c].lineImages
RecognitionArg(c) == run[c].lineImages

\* Ocr.ts:42, 52-56: detect settles with what #detectInternal settled with:
\* the object of texts and resized dimensions, or the error thrown.
PartialResultOnFailure(c, thrown) ==
  IF thrown = "none" THEN [status |-> "fulfilled", texts |-> c, resized |-> run[c].lineImages]
  ELSE IF thrown = "recognition"
    THEN [status |-> "fulfilled", texts |-> 0, resized |-> run[c].lineImages]
  ELSE [status |-> "rejected", error |-> thrown]
DetectValue(c, thrown) ==
  IF thrown = "none"
    THEN [status |-> "fulfilled", texts |-> c, resized |-> run[c].lineImages]
    ELSE [status |-> "rejected", error |-> thrown]

\* Ocr.ts:50: await this.#detection.run(image, options) returns or throws.
DetectionRun(c) ==
  /\ pc[c] = "detection"
  /\ \E ok \in BOOLEAN :
       IF ok
         THEN /\ pc' = [pc EXCEPT ![c] = AfterDetection(TRUE)]
              /\ run' = [run EXCEPT ![c].lineImages = DetectionResult(c),
                                    ![c].detections = @ + 1]
              /\ UNCHANGED internalResult
         ELSE /\ pc' = [pc EXCEPT ![c] = AfterDetection(FALSE)]
              /\ run' = [run EXCEPT ![c].thrown = "detection",
                                    ![c].detections = @ + 1]
              /\ internalResult' = [internalResult EXCEPT ![c] = "fail"]
  /\ UNCHANGED <<mutex, promiseState, target, currentMutex, detectResult,
                 startOrder>>
  /\ UNCHANGED <<imgVars, modelVars>>

\* Ocr.ts:51-56: await this.#recognition.run(lineImages, options), then the
\* result object is returned.
RecognitionRun(c) ==
  /\ pc[c] = "recognition"
  /\ \E ok \in BOOLEAN :
       /\ internalResult' = [internalResult EXCEPT ![c] = IF ok THEN "ok" ELSE "fail"]
       /\ run' = [run EXCEPT ![c].recognitionArg = RecognitionArg(c),
                             ![c].thrown = IF ok THEN @ ELSE "recognition",
                             ![c].recognitions = @ + 1]
  /\ pc' = [pc EXCEPT ![c] = "finally"]
  /\ UNCHANGED <<mutex, promiseState, target, currentMutex, detectResult,
                 startOrder>>
  /\ UNCHANGED <<imgVars, modelVars>>

\* Ocr.ts:43-47: the finally block, then detect's promise settles.
Finally(c) ==
  /\ pc[c] = "finally"
  /\ promiseState' = [promiseState EXCEPT ![c] = MutexAfterRun(internalResult[c] = "ok")]
  /\ detectResult' = [detectResult EXCEPT ![c] = DetectOutcome(c)]
  /\ run' = [run EXCEPT ![c].settled = DetectValue(c, run[c].thrown)]
  /\ pc' = [pc EXCEPT ![c] = "settled"]
  /\ UNCHANGED <<mutex, target, currentMutex, internalResult, startOrder>>
  /\ UNCHANGED <<imgVars, modelVars>>

(***************************************************************************)
(* The execution environment (part_001:13-18).  A field says whether       *)
(* typeof <global> !== 'undefined' there.  Envs keeps the combinations a   *)
(* JavaScript runtime offers: window is self where it exists and comes     *)
(* with document and the DOM classes; the element classes come together    *)
(* (they may be installed without a document); Image comes with            *)
(* HTMLImageElement and createImageBitmap with ImageBitmap.                *)
(***************************************************************************)
Envs ==
  { e \in [window : BOOLEAN, self : BOOLEAN, document : BOOLEAN,
           OffscreenCanvas : BOOLEAN, Image : BOOLEAN,
           createImageBitmap : BOOLEAN, ImageBitmap : BOOLEAN,
           HTMLImageElement : BOOLEAN, HTMLCanvasElement : BOOLEAN,
           HTMLVideoElement : BOOLEAN] :
      /\ e.window => e.self
      /\ e.document = e.window
      /\ e.document => e.HTMLImageElement
      /\ e.HTMLCanvasElement = e.HTMLImageElement
      /\ e.HTMLVideoElement = e.HTMLImageElement
      /\ e.Image = e.HTMLImageElement
      /\ e.ImageBitmap = e.createImageBitmap }

\* part_001:14-18
IS_WORKER(e) == ~e.window /\ e.self /\ ~e.document
HAS_OFFSCREEN_CANVAS(e) == e.OffscreenCanvas
HAS_DOCUMENT(e) == e.document
HAS_IMAGE(e) == e.Image
HAS_CREATE_IMAGE_BITMAP(e) == e.createImageBitmap

(***************************************************************************)
(* The values a caller can pass.  kind is the JavaScript value's class;    *)
(* the other fields are the properties the code reads from it.  For a      *)
(* plain object, dataType / widthKind / heightKind say what its data,      *)
(* width and height properties hold ("absent": no such property).          *)
(***************************************************************************)
ElementKinds == {"HTMLImageElement", "HTMLCanvasElement", "HTMLVideoElement"}
DataTypes == {"Uint8Array", "Uint8ClampedArray", "Array", "absent"}
DimKinds == {"number", "numericString", "nonNumeric", "absent"}

Value(k) ==
  [kind |-> k, width |-> 0, height |-> 0, detached |-> FALSE,
   complete |-> TRUE, readyState |-> 0, dataType |-> "absent",
   widthKind |-> "absent", heightKind |-> "absent", lengthOk |-> TRUE]

Sized(k, w, h) == [Value(k) EXCEPT !.width = w, !.height = h]

Inputs ==
  {Value(k) : k \in {"string", "number", "null", "undefined"}}
  \cup {Sized("ImageBitmap", w, h) : w \in Dims, h \in Dims}
  \cup {[Value("ImageBitmap") EXCEPT !.detached = TRUE]}
  \cup {Sized("OffscreenCanvas", w, h) : w \in Dims, h \in Dims}
  \cup {Sized("HTMLCanvasElement", w, h) : w \in Dims, h \in Dims}
  \cup {[Sized("HTMLImageElement", w, h) EXCEPT !.complete = c] :
          w \in Dims, h \in Dims, c \in BOOLEAN}
  \cup {[Sized("HTMLVideoElement", w, h) EXCEPT !.readyState = r] :
          w \in Dims, h \in Dims, r \in {0, 1, 2}}
  \cup {[Sized("object", w, h) EXCEPT !.dataType = t, !.widthKind = "number",
                                      !.heightKind = "number", !.lengthOk = l] :
          w \in Dims, h \in Dims, t \in {"Uint8Array", "Uint8ClampedArray"},
          l \in BOOLEAN}
  \cup {[Sized("object", 1, 1) EXCEPT !.dataType = t, !.widthKind = wk,
                                      !.heightKind = hk] :
          t \in DataTypes, wk \in DimKinds, hk \in DimKinds}

\* A native handle exists only where the platform has its class.  An element
\* handle may come from a DOM implementation that is not installed on the
\* global object, so it can exist without the global constructor.
InputExists(e, in) ==
  /\ in.kind = "ImageBitmap" => e.ImageBitmap
  /\ in.kind = "OffscreenCanvas" => e.OffscreenCanvas
  /\ (in.kind \in ElementKinds /\ e.document) => e.HTMLImageElement

\* The pixels of a w x h source, as RGBA bytes.
SourcePixels(w, h) == [k \in 1..(4 * w * h) |-> (k * 37) % 256]

\* The bytes of the caller's array for a plain-object input: one byte short
\* of width*height*4 when lengthOk is false.
CallerBytes(in) ==
  IF in.lengthOk THEN SourcePixels(in.width, in.height)
  ELSE SubSeq(SourcePixels(in.width, in.height), 1, 4 * in.width * in.height - 1)

(***************************************************************************)
(* The messages of the errors the code throws, and of the errors the       *)
(* platform throws into it.                                                *)
(***************************************************************************)
ErrUnsupported == "Unsupported image input type"
ErrImageInWorker == "HTMLImageElement is not available in Web Worker. Use ImageBitmap instead."
ErrCanvasInWorker == "HTMLCanvasElement is not available in Web Worker. Use OffscreenCanvas instead."
ErrVideoInWorker == "HTMLVideoElement is not available in Web Worker. Use ImageBitmap instead."
ErrNoCanvas == "No canvas support available. Neither OffscreenCanvas nor document is available."
ErrNoCreateImageBitmap == "createImageBitmap is not supported"
ErrCannotLoad == "Cannot load image from URL: no supported method available"
ErrInvalidBitmap == "Invalid ImageBitmap: dimensions are zero (bitmap may be closed or neutered)"
ErrCreate2D == "Failed to create canvas 2D context"
ErrGet2D == "Failed to get 2D context"
ErrVideoNotReady == "Video is not ready. Ensure video has loaded metadata and data."
PlatformFetch == "platform: fetch or blob rejected"
PlatformDecode == "platform: decode rejected"
PlatformBitmap == "platform: createImageBitmap rejected"
PlatformDraw == "platform: drawImage threw"
PlatformRead == "platform: getImageData threw"
PlatformSize == "platform: width or height is not a valid size"
PlatformLength == "platform: data length does not match width and height"

(***************************************************************************)
(* Type guards (part_001:105-149).  instanceof C holds for a value of      *)
(* class C when the global C is defined.                                   *)
(***************************************************************************)
isImageBitmap(e, in) == e.ImageBitmap /\ in.kind = "ImageBitmap"
isHTMLImageElement(e, in) == e.HTMLImageElement /\ in.kind = "HTMLImageElement"
isHTMLCanvasElement(e, in) == e.HTMLCanvasElement /\ in.kind = "HTMLCanvasElement"
isHTMLVideoElement(e, in) == e.HTMLVideoElement /\ in.kind = "HTMLVideoElement"
isOffscreenCanvas(e, in) == HAS_OFFSCREEN_CANVAS(e) /\ in.kind = "OffscreenCanvas"

\* part_001:140-149
isImageRawDataOfUint8ArrayOnly(in) ==
  /\ in.kind \notin {"string", "number", "undefined", "null"}
  /\ in.dataType # "absent"
  /\ in.widthKind # "absent"
  /\ in.heightKind # "absent"
  /\ in.dataType = "Uint8Array"
isImageRawData(in) ==
  /\ in.kind \notin {"string", "number", "undefined"}  \* typeof input === 'object'
  /\ in.kind # "null"                                  \* input !== null
  /\ in.dataType # "absent"                            \* 'data' in input
  /\ in.widthKind # "absent"                           \* 'width' in input
  /\ in.heightKind # "absent"                          \* 'height' in input
  /\ in.dataType \in {"Uint8Array", "Uint8ClampedArray"}

\* part_001:161-207: the branch ImageRaw.from takes.
Dispatch(e, in) ==
  IF in.kind = "string" THEN "open"
  ELSE IF isImageBitmap(e, in) THEN "fromImageBitmap"
  ELSE IF isOffscreenCanvas(e, in) THEN "fromOffscreenCanvas"
  ELSE IF isHTMLImageElement(e, in)
    THEN IF IS_WORKER(e) THEN ErrImageInWorker ELSE "fromHTMLImageElement"
  ELSE IF isHTMLCanvasElement(e, in)
    THEN IF IS_WORKER(e) THEN ErrCanvasInWorker ELSE "fromHTMLCanvasElement"
  ELSE IF isHTMLVideoElement(e, in)
    THEN IF IS_WORKER(e) THEN ErrVideoInWorker ELSE "fromHTMLVideoElement"
  ELSE IF isImageRawData(in) THEN "constructor"
  ELSE ErrUnsupported

Converters ==
  {"open", "fromImageBitmap", "fromOffscreenCanvas", "fromHTMLImageElement",
   "fromHTMLCanvasElement", "fromHTMLVideoElement", "constructor"}

\* part_001:27-38 createCanvas: the surface it returns, or "throw".
CreateCanvas(e) ==
  IF HAS_OFFSCREEN_CANVAS(e) THEN "OffscreenCanvas"
  ELSE IF HAS_DOCUMENT(e) THEN "HTMLCanvasElement"
  ELSE "throw"

(***************************************************************************)
(* The state of one normalization.                                         *)
(***************************************************************************)
\* draws: the calls of drawImage with the bitmap; pixelReads: the reads of
\* the pixels drawn from it; late: the normalization used the bitmap after it
\* had closed it.
NoBitmap ==
  [state |-> "none", width |-> 0, height |-> 0, closeCalls |-> 0, owner |-> "none",
   draws |-> 0, pixelReads |-> 0, late |-> FALSE]
NoCanvas == [kind |-> "none", width |-> 0, height |-> 0, ctxCached |-> FALSE]
NoArgs ==
  [dataType |-> "absent", buf |-> 0, width |-> 0, height |-> 0,
   widthKind |-> "absent", heightKind |-> "absent", lengthOk |-> TRUE,
   ret |-> "done"]
\* No resize was called on the image.
NoResize == [called |-> FALSE, width |-> 0, height |-> 0, fromWidth |-> 0,
             fromHeight |-> 0, newWidth |-> 0, newHeight |-> 0]
NoImage ==
  [made |-> FALSE, dataBuf |-> 0, imageDataBuf |-> 0, width |-> 0, height |-> 0,
   widthKind |-> "absent", heightKind |-> "absent", stored |-> << >>,
   boxes |-> FALSE, appended |-> FALSE, lastResize |-> NoResize]

\* The fallible steps of a normalization: the platform calls that can
\* reject or throw, and the construction of the ImageRaw.
StepNames ==
  {"fetch", "createImageBitmap", "decode", "createCanvas", "canvasDrawImage",
   "drawImage", "getImageData", "constructor"}

NoSteps ==
  [tries |-> [n \in StepNames |-> 0], failed |-> [n \in StepNames |-> 0]]

\* The steps after one more attempt of step n, which failed or did not.
AfterStep(n, failed) ==
  [tries |-> [steps.tries EXCEPT ![n] = @ + 1],
   failed |-> IF failed THEN [steps.failed EXCEPT ![n] = @ + 1]
              ELSE steps.failed]

\* No image of an earlier call is the input.
NoFirst == [made |-> FALSE, dataBuf |-> 0, width |-> 0, height |-> 0,
            widthKind |-> "absent", heightKind |-> "absent", bytes |-> << >>]

\* The caller's typed array is buffer 1 of the heap.
CallerBuf == 1

\* The buffer behind input.data: the caller's array, or the data of the
\* ImageRaw that is passed as input.
InputBuf == IF first.made THEN first.dataBuf ELSE CallerBuf
HasCallerArray(in) ==
  in.kind = "object" /\ in.dataType \in {"Uint8Array", "Uint8ClampedArray"}

InitImage ==
  /\ env \in Envs
  /\ input \in Inputs
  /\ InputExists(env, input)
  /\ ipc = "from"
  /\ taken = "none"
  /\ outcome = "pending"
  /\ bitmap = IF input.kind = "ImageBitmap"
                THEN [state |-> IF input.detached THEN "closed" ELSE "open",
                      width |-> input.width, height |-> input.height,
                      closeCalls |-> 0, owner |-> "caller",
                      draws |-> 0, pixelReads |-> 0, late |-> FALSE]
                ELSE NoBitmap
  /\ canvas = NoCanvas
  /\ args = NoArgs
  /\ image = NoImage
  /\ heap = IF HasCallerArray(input) THEN <<CallerBytes(input)>> ELSE << >>
  /\ callerExpect = IF HasCallerArray(input) THEN CallerBytes(input) ELSE << >>
  /\ ops = 0
  /\ first = NoFirst
  /\ steps = NoSteps

\* The variables of the normalizer while the serializer is modelled.
ImageIdle ==
  /\ env = CHOOSE e \in Envs : e.window /\ e.OffscreenCanvas /\ e.createImageBitmap
  /\ input = Value("undefined")
  /\ ipc = "idle"
  /\ taken = "none"
  /\ outcome = "pending"
  /\ bitmap = NoBitmap
  /\ canvas = NoCanvas
  /\ args = NoArgs
  /\ image = NoImage
  /\ heap = << >>
  /\ callerExpect = << >>
  /\ ops = 0
  /\ first = NoFirst
  /\ steps = NoSteps

\* throw new Error(msg) out of the call
Throw(msg) == ipc' = "done" /\ outcome' = msg

\* The dimensions of the source a bitmap or a drawing is made from: those of
\* the element passed in, any for an image fetched from a URL.
SourceWidths == IF input.kind = "string" THEN Dims ELSE {input.width}
SourceHeights == IF input.kind = "string" THEN Dims ELSE {input.height}

\* part_001:161-207 ImageRaw.from: the dispatch, up to the call it makes.
From ==
  /\ ipc = "from"
  /\ taken' = Dispatch(env, input)
  /\ IF Dispatch(env, input) \in Converters
       THEN ipc' = Dispatch(env, input) /\ UNCHANGED outcome
       ELSE Throw(Dispatch(env, input))
  /\ args' = IF Dispatch(env, input) = "constructor"
               THEN [dataType |-> input.dataType, buf |-> InputBuf,
                     width |-> input.width, height |-> input.height,
                     widthKind |-> input.widthKind, heightKind |-> input.heightKind,
                     lengthOk |-> input.lengthOk, ret |-> "done"]
               ELSE args
  /\ UNCHANGED <<env, input, bitmap, canvas, image, heap, callerExpect, ops>>
  /\ UNCHANGED <<ocrVars, modelVars, first, steps>>

\* part_001:214-237 ImageRaw.open: the method it chooses.
Open ==
  /\ ipc = "open"
  /\ IF HAS_CREATE_IMAGE_BITMAP(env)
       THEN ipc' = "fetch" /\ UNCHANGED outcome
       ELSE IF ~IS_WORKER(env) /\ HAS_IMAGE(env)
         THEN ipc' = "imageFromUrl" /\ UNCHANGED outcome
         ELSE Throw(ErrCannotLoad)
  /\ UNCHANGED <<env, input, taken, bitmap, canvas, args, image, heap,
                 callerExpect, ops>>
  /\ UNCHANGED <<ocrVars, modelVars, first, steps>>

\* part_001:217-219: await fetch(url), await response.blob().
OpenFetch ==
  /\ ipc = "fetch"
  /\ \E ok \in BOOLEAN :
       IF ok THEN ipc' = "createOptimizedImageBitmap" /\ UNCHANGED outcome
       ELSE Throw(PlatformFetch)
  /\ UNCHANGED <<env, input, taken, bitmap, canvas, args, image, heap,
                 callerExpect, ops>>
  /\ steps' = AfterStep("fetch", outcome' \notin {"pending", "ok"})
  /\ UNCHANGED <<ocrVars, modelVars, first>>

\* A bitmap createImageBitmap returned: open, owned by the normalizer.
Acquired(w, h) ==
  [state |-> "open", width |-> w, height |-> h, closeCalls |-> 0,
   owner |-> "normalizer", draws |-> 0, pixelReads |-> 0, late |-> FALSE]

\* part_001:76-87 createOptimizedImageBitmap: the attempt with options.
CreateOptimizedImageBitmap ==
  /\ ipc = "createOptimizedImageBitmap"
  /\ IF ~HAS_CREATE_IMAGE_BITMAP(env)
       THEN Throw(ErrNoCreateImageBitmap) /\ UNCHANGED bitmap
       ELSE \E ok \in BOOLEAN :
              IF ok
                THEN /\ \E w \in SourceWidths, h \in SourceHeights :
                          bitmap' = Acquired(w, h)
                     /\ ipc' = "fromImageBitmap"
                     /\ UNCHANGED outcome
                ELSE /\ ipc' = "createImageBitmap"
                     /\ UNCHANGED <<outcome, bitmap>>
  /\ UNCHANGED <<env, input, taken, canvas, args, image, heap, callerExpect,
                 ops>>
  /\ steps' = IF HAS_CREATE_IMAGE_BITMAP(env)
                THEN AfterStep("createImageBitmap", ipc' = "createImageBitmap")
                ELSE steps
  /\ UNCHANGED <<ocrVars, modelVars, first>>

\* part_001:87-90: the catch block's createImageBitmap(source) without options.
CreateImageBitmapFallback ==
  /\ ipc = "createImageBitmap"
  /\ \E ok \in BOOLEAN :
       IF ok
         THEN /\ \E w \in SourceWidths, h \in SourceHeights :
                   bitmap' = Acquired(w, h)
              /\ ipc' = "fromImageBitmap"
              /\ UNCHANGED outcome
         ELSE Throw(PlatformBitmap) /\ UNCHANGED bitmap
  /\ UNCHANGED <<env, input, taken, canvas, args, image, heap, callerExpect,
                 ops>>
  /\ steps' = AfterStep("createImageBitmap", outcome' \notin {"pending", "ok"})
  /\ UNCHANGED <<ocrVars, modelVars, first>>

\* part_001:225 and 483-488 imageFromUrl: new Image(), await image.decode().
ImageFromUrl ==
  /\ ipc = "imageFromUrl"
  /\ \E ok \in BOOLEAN :
       IF ok THEN ipc' = "canvasDraw" /\ UNCHANGED outcome
       ELSE Throw(PlatformDecode)
  /\ UNCHANGED <<env, input, taken, bitmap, canvas, args, image, heap,
                 callerExpect, ops>>
  /\ steps' = AfterStep("decode", outcome' \notin {"pending", "ok"})
  /\ UNCHANGED <<ocrVars, modelVars, first>>

\* part_001:226-227 and 315-316: createCanvas (27-38), then canvasDrawImage
\* (463-471), which obtains and caches the context of the new canvas.
CanvasDraw ==
  /\ ipc = "canvasDraw"
  /\ IF CreateCanvas(env) = "throw"
       THEN Throw(ErrNoCanvas) /\ UNCHANGED canvas
       ELSE \E ctxOk \in BOOLEAN, drawOk \in BOOLEAN :
              IF ~ctxOk THEN Throw(ErrGet2D) /\ UNCHANGED canvas
              ELSE IF ~drawOk THEN Throw(PlatformDraw) /\ UNCHANGED canvas
              ELSE /\ \E w \in SourceWidths, h \in SourceHeights :
                        canvas' = [kind |-> CreateCanvas(env), width |-> w,
                                   height |-> h, ctxCached |-> TRUE]
                   /\ ipc' = "getImageData"
                   /\ UNCHANGED outcome
  /\ UNCHANGED <<env, input, taken, bitmap, args, image, heap, callerExpect,
                 ops>>
  /\ steps' = AfterStep("canvasDrawImage", outcome' \notin {"pending", "ok"})
  /\ UNCHANGED <<ocrVars, modelVars, first>>

\* The constructor arguments made of an ImageData read from a canvas: its data
\* is a fresh Uint8ClampedArray, buffer b of the heap.
ImageDataArgs(b, w, h, ret) ==
  [dataType |-> "Uint8ClampedArray", buf |-> b, width |-> w, height |-> h,
   widthKind |-> "number", heightKind |-> "number", lengthOk |-> TRUE,
   ret |-> ret]

\* part_001:63-69 getImageData, and the new ImageRaw({...}) its callers make
\* of the result (228-233, 283-289, 317-323, 337-343).
GetImageData ==
  /\ ipc = "getImageData"
  /\ \E ctxOk \in BOOLEAN, readOk \in BOOLEAN :
       IF ~canvas.ctxCached /\ ~ctxOk
         THEN Throw(ErrGet2D) /\ UNCHANGED <<canvas, args, heap>>
       ELSE IF ~readOk
         THEN Throw(PlatformRead) /\ UNCHANGED <<canvas, args, heap>>
       ELSE /\ canvas' = [canvas EXCEPT !.ctxCached = TRUE]
            /\ heap' = Append(heap, SourcePixels(canvas.width, canvas.height))
            /\ args' = ImageDataArgs(Len(heap) + 1, canvas.width, canvas.height, "done")
            /\ ipc' = "constructor"
            /\ UNCHANGED outcome
  /\ UNCHANGED <<env, input, taken, bitmap, image, callerExpect, ops>>
  /\ steps' = AfterStep("getImageData", outcome' \notin {"pending", "ok"})
  /\ UNCHANGED <<ocrVars, modelVars, first>>

\* The canvas a caller passed in: no context of it is cached yet.
CallerCanvas ==
  [kind |-> input.kind, width |-> input.width, height |-> input.height,
   ctxCached |-> FALSE]

\* part_001:282-290 ImageRaw.fromOffscreenCanvas
FromOffscreenCanvas ==
  /\ ipc = "fromOffscreenCanvas"
  /\ canvas' = CallerCanvas
  /\ ipc' = "getImageData"
  /\ UNCHANGED <<env, input, taken, outcome, bitmap, args, image, heap,
                 callerExpect, ops>>
  /\ UNCHANGED <<ocrVars, modelVars, first, steps>>

\* part_001:332-344 ImageRaw.fromHTMLCanvasElement
FromHTMLCanvasElement ==
  /\ ipc = "fromHTMLCanvasElement"
  /\ IF IS_WORKER(env)
       THEN Throw(ErrCanvasInWorker) /\ UNCHANGED canvas
       ELSE canvas' = CallerCanvas /\ ipc' = "getImageData" /\ UNCHANGED outcome
  /\ UNCHANGED <<env, input, taken, bitmap, args, image, heap, callerExpect,
                 ops>>
  /\ UNCHANGED <<ocrVars, modelVars, first, steps>>

\* part_001:298-312 ImageRaw.fromHTMLImageElement, up to the method it chooses.
FromHTMLImageElement ==
  /\ ipc = "fromHTMLImageElement"
  /\ IF IS_WORKER(env)
       THEN Throw(ErrImageInWorker)
       ELSE \E decodeOk \in BOOLEAN :
              IF (~input.complete \/ input.width = 0) /\ ~decodeOk
                THEN Throw(PlatformDecode)
              ELSE /\ ipc' = IF HAS_CREATE_IMAGE_BITMAP(env)
                               THEN "createOptimizedImageBitmap"
                               ELSE "canvasDraw"
                   /\ UNCHANGED outcome
  /\ UNCHANGED <<env, input, taken, bitmap, canvas, args, image, heap,
                 callerExpect, ops>>
  /\ steps' = IF ~IS_WORKER(env) /\ (~input.complete \/ input.width = 0)
                THEN AfterStep("decode", outcome' \notin {"pending", "ok"})
                ELSE steps
  /\ UNCHANGED <<ocrVars, modelVars, first>>

\* part_001:357  if (video.readyState < 2)
NotReadyBelowMetadata(readyState) == readyState < 1
NotReady(readyState) == readyState < 2

\* part_001:352-365 ImageRaw.fromHTMLVideoElement, up to the method it chooses.
FromHTMLVideoElement ==
  /\ ipc = "fromHTMLVideoElement"
  /\ IF IS_WORKER(env) THEN Throw(ErrVideoInWorker)
     ELSE IF NotReady(input.readyState) THEN Throw(ErrVideoNotReady)
     ELSE /\ ipc' = IF HAS_CREATE_IMAGE_BITMAP(env)
                      THEN "createOptimizedImageBitmap"
                      ELSE "videoFallback"
          /\ UNCHANGED outcome
  /\ UNCHANGED <<env, input, taken, bitmap, canvas, args, image, heap,
                 callerExpect, ops>>
  /\ UNCHANGED <<ocrVars, modelVars, first, steps>>

\* part_001:367-383: the canvas fallback of fromHTMLVideoElement.
VideoFallback ==
  /\ ipc = "videoFallback"
  /\ IF CreateCanvas(env) = "throw"
       THEN Throw(ErrNoCanvas) /\ UNCHANGED <<canvas, args, heap>>
       ELSE \E ctxOk \in BOOLEAN, r \in {"ok", PlatformDraw, PlatformRead} :
              IF ~ctxOk THEN Throw(ErrCreate2D) /\ UNCHANGED <<canvas, args, heap>>
              ELSE IF r # "ok" THEN Throw(r) /\ UNCHANGED <<canvas, args, heap>>
              ELSE /\ canvas' = [kind |-> CreateCanvas(env), width |-> input.width,
                                 height |-> input.height, ctxCached |-> TRUE]
                   /\ heap' = Append(heap, SourcePixels(input.width, input.height))
                   /\ args' = ImageDataArgs(Len(heap) + 1, input.width,
                                            input.height, "done")
                   /\ ipc' = "constructor"
                   /\ UNCHANGED outcome
  /\ UNCHANGED <<env, input, taken, bitmap, image, callerExpect, ops>>
  /\ steps' = AfterStep("drawImage", outcome' \notin {"pending", "ok"})
  /\ UNCHANGED <<ocrVars, modelVars, first>>

\* bitmap.close(): the handle is detached, its dimensions read 0 from then on.
\* An exception of close() itself is swallowed (try { } catch { }).
CloseBitmap(b) ==
  [b EXCEPT !.state = "closed", !.width = 0, !.height = 0,
            !.closeCalls = @ + 1]

\* part_001:255-259: the cleanup before throwing when no context was created.
SkipCloseOnContextFailure(b) == b
CloseOnContextFailure(b) == CloseBitmap(b)

\* part_001:270-273: the finally block of fromImageBitmap.
CloseTwiceInFinally(b) == CloseBitmap(CloseBitmap(b))
CloseInFinally(b) == CloseBitmap(b)

\* part_001:248, 252, 262: a use of the bitmap (bitmap.width, bitmap.height,
\* drawImage(bitmap)), which is late once the call has closed the bitmap.
Touch(b) == [b EXCEPT !.late = @ \/ b.closeCalls > 0]

\* part_001:262-263: ctx.drawImage(bitmap, 0, 0), and, unless that threw
\* (r = PlatformDraw), ctx.getImageData of the pixels drawn.
DrawnAndRead(b, r) ==
  [Touch(b) EXCEPT !.draws = @ + 1,
                   !.pixelReads = IF r = PlatformDraw THEN @ ELSE @ + 1]

\* part_001:255-261: the bitmap at the try block: the close of 257 is inside
\* if (!ctx), so with a context the bitmap is still open.
ClosedEnteringTry(b) == CloseBitmap(b)
BitmapEnteringTry(b) == b

\* part_001:246-259 ImageRaw.fromImageBitmap, up to its try block.
FromImageBitmap ==
  /\ ipc = "fromImageBitmap"
  /\ IF bitmap.width = 0 \/ bitmap.height = 0
       THEN Throw(ErrInvalidBitmap) /\ bitmap' = Touch(bitmap) /\ UNCHANGED canvas
     ELSE IF CreateCanvas(env) = "throw"
       THEN Throw(ErrNoCanvas) /\ bitmap' = Touch(bitmap) /\ UNCHANGED canvas
     ELSE \E ctxOk \in BOOLEAN :
            IF ~ctxOk
              THEN /\ bitmap' = CloseOnContextFailure(Touch(bitmap))
                   /\ Throw(ErrCreate2D)
                   /\ UNCHANGED canvas
              ELSE /\ canvas' = [kind |-> CreateCanvas(env), width |-> bitmap.width,
                                 height |-> bitmap.height, ctxCached |-> TRUE]
                   /\ ipc' = "fromImageBitmap:try"
                   /\ bitmap' = BitmapEnteringTry(Touch(bitmap))
                   /\ UNCHANGED outcome
  /\ UNCHANGED <<env, input, taken, args, image, heap, callerExpect, ops>>
  /\ steps' = IF bitmap.width = 0 \/ bitmap.height = 0
                THEN steps
                ELSE AfterStep("createCanvas", outcome' \notin {"pending", "ok"})
  /\ UNCHANGED <<ocrVars, modelVars, first>>

\* part_001:261-269: ctx.drawImage(bitmap, 0, 0), ctx.getImageData(...) and the
\* call of the constructor, inside try.  A throw leads to the finally block.
FromImageBitmapTry ==
  /\ ipc = "fromImageBitmap:try"
  /\ \E r \in {"ok", PlatformDraw, PlatformRead} :
       /\ bitmap' = DrawnAndRead(bitmap, r)
       /\ IF r # "ok"
            THEN /\ outcome' = r
                 /\ ipc' = "fromImageBitmap:finally"
                 /\ UNCHANGED <<args, heap>>
            ELSE /\ heap' = Append(heap, SourcePixels(canvas.width, canvas.height))
                 /\ args' = ImageDataArgs(Len(heap) + 1, canvas.width,
                                          canvas.height, "fromImageBitmap:finally")
                 /\ ipc' = "constructor"
                 /\ UNCHANGED outcome
  /\ UNCHANGED <<env, input, taken, canvas, image, callerExpect, ops>>
  /\ steps' = AfterStep("drawImage", ipc' # "constructor")
  /\ UNCHANGED <<ocrVars, modelVars, first>>

\* part_001:270-273: finally { try { bitmap.close() } catch { } }, after which
\* the call returns or rethrows what the try block produced.
FromImageBitmapFinally ==
  /\ ipc = "fromImageBitmap:finally"
  /\ bitmap' = CloseInFinally(bitmap)
  /\ ipc' = "done"
  /\ UNCHANGED <<env, input, taken, outcome, canvas, args, image, heap,
                 callerExpect, ops>>
  /\ UNCHANGED <<ocrVars, modelVars, first, steps>>

\* new Uint8ClampedArray(source): element-wise conversion with clamping.
Clamped(bytes) ==
  [k \in 1..Len(bytes) |->
     IF bytes[k] < 0 THEN 0 ELSE IF bytes[k] > 255 THEN 255 ELSE bytes[k]]

\* part_001:391-393: the buffer behind newData.  A Uint8ClampedArray is
\* wrapped in a view of its own buffer, anything else is copied to a fresh one.
NewDataBufferAlwaysView(dataType, buf, fresh) == buf
NewDataBuffer(dataType, buf, fresh) ==
  IF dataType = "Uint8ClampedArray" THEN buf ELSE fresh

\* part_001:389-407 the constructor.  createCanvas, new ImageData and
\* canvasPutImageData (473-481) may throw; then no object is made.
Construct ==
  /\ ipc = "constructor"
  /\ \E ctxOk \in BOOLEAN :
       LET fresh == Len(heap) + 1
           newData == NewDataBuffer(args.dataType, args.buf, fresh)
           heap1 == IF newData = fresh
                      THEN Append(heap, Clamped(heap[args.buf]))
                      ELSE heap
           heap2 == Append(heap1, heap1[newData])
           result ==
             IF CreateCanvas(env) = "throw" THEN ErrNoCanvas
             ELSE IF "nonNumeric" \in {args.widthKind, args.heightKind}
               THEN PlatformSize
             ELSE IF ~args.lengthOk THEN PlatformLength
             ELSE IF ~ctxOk THEN ErrGet2D
             ELSE "ok"
       IN /\ outcome' = result
          /\ IF result = "ok"
               THEN /\ heap' = heap2
                    /\ image' = [made |-> TRUE, dataBuf |-> newData,
                                 imageDataBuf |-> Len(heap2),
                                 width |-> args.width, height |-> args.height,
                                 widthKind |-> args.widthKind,
                                 heightKind |-> args.heightKind,
                                 stored |-> heap1[newData],
                                 boxes |-> FALSE, appended |-> FALSE,
                                 lastResize |-> NoResize]
               ELSE UNCHANGED <<heap, image>>
  /\ ipc' = args.ret
  /\ UNCHANGED <<env, input, taken, bitmap, canvas, args, callerExpect, ops>>
  /\ steps' = AfterStep("constructor", outcome' \notin {"pending", "ok"})
  /\ UNCHANGED <<ocrVars, modelVars, first>>

(***************************************************************************)
(* After the call returned an image: the caller's own writes to the array  *)
(* it passed, and the instance methods of the image.                       *)
(***************************************************************************)
Returned == ipc = "done" /\ outcome = "ok"

\* The caller stores byte v at index i of the array it passed as data.
CallerWrite(i, v) ==
  /\ Returned
  /\ HasCallerArray(input)
  /\ ops < MaxOps
  /\ i \in 1..Len(heap[CallerBuf])
  /\ heap' = [heap EXCEPT ![CallerBuf][i] = v]
  /\ callerExpect' = [callerExpect EXCEPT ![i] = v]
  /\ ops' = ops + 1
  /\ UNCHANGED <<env, input, ipc, taken, outcome, bitmap, canvas, args, image>>
  /\ UNCHANGED <<ocrVars, modelVars, first, steps>>

\* Math.round(n / d) for n >= 0, d > 0
RoundDiv(n, d) == (2 * n + d) \div (2 * d)

\* part_001:422  const newWidth = width || Math.round((this.width / this.height) * height!)
\* for an image of w x h and the option's width ow and height oh (0: undefined)
NewWidthOfInvertedRatio(w, h, ow, oh) == IF ow # 0 THEN ow ELSE RoundDiv(h * oh, w)
NewWidth(w, h, ow, oh) == IF ow # 0 THEN ow ELSE RoundDiv(w * oh, h)

\* part_001:423  const newHeight = height || Math.round((this.height / this.width) * width!)
NewHeight(w, h, ow, oh) == IF oh # 0 THEN oh ELSE RoundDiv(h * ow, w)

\* part_001:420-428 ImageRaw.resize and 449-456 #apply; ow, oh are the
\* option's width and height, 0 for undefined.  canvasDrawImage (463-471)
\* falls back to the source's size for a size of 0.  The resampled pixels
\* are the platform's; the model gives them as SourcePixels of the new size.
Resize(ow, oh) ==
  /\ Returned
  /\ ops < MaxOps
  /\ ow # 0 \/ oh # 0
  /\ LET newWidth == NewWidth(image.width, image.height, ow, oh)
         newHeight == NewHeight(image.width, image.height, ow, oh)
         cw == IF newWidth # 0 THEN newWidth ELSE image.width
         ch == IF newHeight # 0 THEN newHeight ELSE image.height
         computed == [called |-> TRUE, width |-> ow, height |-> oh,
                      fromWidth |-> image.width, fromHeight |-> image.height,
                      newWidth |-> newWidth, newHeight |-> newHeight]
     IN \E ctxOk \in BOOLEAN, readOk \in BOOLEAN :
          IF CreateCanvas(env) = "throw" \/ ~ctxOk \/ ~readOk
            THEN /\ image' = [image EXCEPT !.lastResize = computed]
                 /\ UNCHANGED heap
            ELSE /\ heap' = Append(heap, SourcePixels(cw, ch))
                 /\ image' = [image EXCEPT !.dataBuf = Len(heap) + 1,
                                           !.imageDataBuf = Len(heap) + 1,
                                           !.width = cw, !.height = ch,
                                           !.widthKind = "number",
                                           !.heightKind = "number",
                                           !.stored = SourcePixels(cw, ch),
                                           !.lastResize = computed]
  /\ ops' = ops + 1
  /\ UNCHANGED <<env, input, ipc, taken, outcome, bitmap, canvas, args,
                 callerExpect>>
  /\ UNCHANGED <<ocrVars, modelVars, first, steps>>

\* part_001:430-447 ImageRaw.drawBox: strokes on the image's canvas.
DrawBox ==
  /\ Returned
  /\ ops < MaxOps
  /\ image' = [image EXCEPT !.boxes = TRUE]
  /\ ops' = ops + 1
  /\ UNCHANGED <<env, input, ipc, taken, outcome, bitmap, canvas, args, heap,
                 callerExpect>>
  /\ UNCHANGED <<ocrVars, modelVars, first, steps>>

\* part_001:413-418 ImageRaw.write: appends the canvas to document.body on
\* the main thread when it is an HTMLCanvasElement, else does nothing.
Write ==
  /\ Returned
  /\ ops < MaxOps
  /\ image' = [image EXCEPT !.appended =
                 @ \/ (~IS_WORKER(env) /\ HAS_DOCUMENT(env)
                        /\ CreateCanvas(env) = "HTMLCanvasElement")]
  /\ ops' = ops + 1
  /\ UNCHANGED <<env, input, ipc, taken, outcome, bitmap, canvas, args, heap,
                 callerExpect>>
  /\ UNCHANGED <<ocrVars, modelVars, first, steps>>

\* An ImageRaw r read as an input of ImageRaw.from: an object that has data
\* (part_001:93, a Uint8ClampedArray), width and height.
ImageRawAsInput(r) ==
  [Value("object") EXCEPT !.width = r.width, !.height = r.height,
                          !.dataType = "Uint8ClampedArray",
                          !.widthKind = r.widthKind, !.heightKind = r.heightKind]

\* part_001:161: ImageRaw.from(r) is called with the image r that the call
\* before returned.
FromAgain ==
  /\ Returned
  /\ ~first.made
  /\ ops = 0
  /\ first' = [made |-> TRUE, dataBuf |-> image.dataBuf, width |-> image.width,
               height |-> image.height, widthKind |-> image.widthKind,
               heightKind |-> image.heightKind, bytes |-> heap[image.dataBuf]]
  /\ input' = ImageRawAsInput(image)
  /\ ipc' = "from"
  /\ taken' = "none"
  /\ outcome' = "pending"
  /\ bitmap' = NoBitmap
  /\ canvas' = NoCanvas
  /\ args' = NoArgs
  /\ image' = NoImage
  /\ steps' = NoSteps
  /\ UNCHANGED <<env, heap, callerExpect, ops>>
  /\ UNCHANGED <<ocrVars, modelVars>>

NextImage ==
  \/ From
  \/ Open
  \/ OpenFetch
  \/ CreateOptimizedImageBitmap
  \/ CreateImageBitmapFallback
  \/ ImageFromUrl
  \/ CanvasDraw
  \/ GetImageData
  \/ FromOffscreenCanvas
  \/ FromHTMLCanvasElement
  \/ FromHTMLImageElement
  \/ FromHTMLVideoElement
  \/ VideoFallback
  \/ FromImageBitmap
  \/ FromImageBitmapTry
  \/ FromImageBitmapFinally
  \/ Construct

\* A caller that passes an array of its own as data and goes on using the
\* array and the image.
InitStorage == InitImage /\ HasCallerArray(input)

NextStorage ==
  \/ From
  \/ Construct
  \/ \E i \in 1..(4 * MaxDim * MaxDim), v \in WriteValues : CallerWrite(i, v)
  \/ \E ow \in 0..MaxDim, oh \in 0..MaxDim : Resize(ow, oh)
  \/ DrawBox
  \/ Write

(***************************************************************************)
(* ModelBase.imageToInput (unnamed/part_000:44-65).  A number of the       *)
(* Float32Array is kept as an exact fraction <<numerator, denominator>> in *)
(* lowest terms with a positive denominator; the rounding of a quotient to *)
(* float32 is left out.                                                    *)
(***************************************************************************)
Abs(x) == IF x < 0 THEN 0 - x ELSE x

RECURSIVE GCD(_, _)
GCD(a, b) == IF b = 0 THEN a ELSE GCD(b, a % b)

Frac(n, d) ==
  LET g == GCD(Abs(n), Abs(d))
      s == IF d < 0 THEN 0 - 1 ELSE 1
  IN <<(s * n) \div g, (s * d) \div g>>

Zero == Frac(0, 1)
One == Frac(1, 1)

\* part_000:55-57  (value / 255 - mean) / std, for fractions mean and std
Normalized(value, mean, std) ==
  Frac((value * mean[2] - 255 * mean[1]) * std[2], 255 * mean[2] * std[1])

\* part_000:44  { mean = [0, 0, 0], std = [1, 1, 1] }: the defaults
DefaultReshape == [mean |-> <<Zero, Zero, Zero>>, std |-> <<One, One, One>>]

\* The options a model passes: the defaults, and a mean and std that differ
\* from channel to channel.
ReshapeOptions ==
  {DefaultReshape,
   [mean |-> <<Frac(1, 2), Frac(1, 4), Zero>>,
    std |-> <<One, Frac(1, 2), Frac(1, 4)>>]}

\* part_000:45  const pixelCount = image.data.length / 4
PixelCount(img) == Len(img.data) \div 4

\* part_000:47  new Float32Array(pixelCount * 3)
TensorLengthWithAlpha(pixelCount) == pixelCount * 4
TensorLength(pixelCount) == pixelCount * 3

\* part_000:49-52  BGR order (model expects BGR)
bOffsetLastPlane(pixelCount) == pixelCount * 2
bOffset(pixelCount) == 0
gOffset(pixelCount) == pixelCount
rOffsetFirstPlane(pixelCount) == 0
rOffset(pixelCount) == pixelCount * 2

\* newData[index] = value, index counted from 0: a store outside a typed
\* array is ignored.
Store(array, index, value) ==
  IF index + 1 \in DOMAIN array THEN [array EXCEPT ![index + 1] = value] ELSE array

\* part_000:54-58: the loop, from the values st of i, p and newData on
RECURSIVE Loop(_, _, _)
Loop(img, opts, st) ==
  IF st.i < Len(img.data)
    THEN LET n == PixelCount(img)
             r == Store(st.newData, rOffset(n) + st.p,
                        Normalized(img.data[st.i + 1], opts.mean[1], opts.std[1]))
             g == Store(r, gOffset(n) + st.p,
                        Normalized(img.data[st.i + 2], opts.mean[2], opts.std[2]))
             b == Store(g, bOffset(n) + st.p,
                        Normalized(img.data[st.i + 3], opts.mean[3], opts.std[3]))
         IN Loop(img, opts, [i |-> st.i + 4, p |-> st.p + 1, newData |-> b])
    ELSE st.newData

\* part_000:44-65 imageToInput
imageToInput(img, opts) ==
  [data |-> Loop(img, opts,
                 [i |-> 0, p |-> 0,
                  newData |-> [k \in 1..TensorLength(PixelCount(img)) |-> Zero]]),
   width |-> img.width,
   height |-> img.height]

\* part_000:41  the dims of the tensor runModel makes of a ModelData
TensorDims(md) == <<1, 3, md.height, md.width>>

NoSubject == [data |-> << >>, width |-> 0, height |-> 0]
NoModelData == [data |-> << >>, width |-> 0, height |-> 0]

\* ModelBase is not in use.
ModelIdle ==
  /\ subject = NoSubject
  /\ reshape = DefaultReshape
  /\ modelData = NoModelData
  /\ mpc = "idle"

\* The pixels a test image is made of: opaque red, opaque green, and a
\* transparent pixel of three different channel values.
Pixels == {<<255, 0, 0, 255>>, <<0, 255, 0, 255>>, <<51, 102, 204, 0>>}

RECURSIVE Flatten(_)
Flatten(pixels) ==
  IF pixels = << >> THEN << >> ELSE Head(pixels) \o Flatten(Tail(pixels))

\* The images an ImageRaw can be: width x height pixels of 4 bytes each
\* (part_001:402, new ImageData(data, width, height) accepts no other length).
SubjectSizes ==
  {d \in (1..MaxPixels) \X (1..MaxPixels) : d[1] * d[2] <= MaxPixels}
SubjectImages ==
  UNION {{[data |-> Flatten(px), width |-> w, height |-> h] :
            px \in [1..(w * h) -> Pixels]} : <<w, h>> \in SubjectSizes}

InitModel ==
  /\ subject \in SubjectImages
  /\ reshape \in ReshapeOptions
  /\ modelData = NoModelData
  /\ mpc = "ready"

\* part_000:44-65: a model converts the image it was given.
ImageToInput ==
  /\ mpc = "ready"
  /\ modelData' = imageToInput(subject, reshape)
  /\ mpc' = "done"
  /\ UNCHANGED <<subject, reshape, debug, contexts>>
  /\ UNCHANGED <<ocrVars, imgVars>>

\* The image a normalization returned, as ModelBase reads it.
ImageOf(im, hp) == [data |-> hp[im.dataBuf], width |-> im.width, height |-> im.height]

\* part_000:44-65: a model converts the image ImageRaw.from returned, or the
\* image as resized since.
ImageToInputOfResult ==
  /\ Returned
  /\ mpc = "idle"
  /\ \E opts \in ReshapeOptions :
       /\ subject' = ImageOf(image, heap)
       /\ reshape' = opts
       /\ modelData' = imageToInput(ImageOf(image, heap), opts)
  /\ mpc' = "done"
  /\ UNCHANGED <<debug, contexts>>
  /\ UNCHANGED <<ocrVars, imgVars>>

NextModel == ImageToInput

NextTwice == NextImage \/ FromAgain

\* One normalization and the first detect call, side by side.
NextCore ==
  \/ NextImage
  \/ Detect(1, 1)
  \/ AwaitMutex(1)
  \/ DetectionRun(1)
  \/ RecognitionRun(1)
  \/ Finally(1)

NextPipeline ==
  \/ From
  \/ Open
  \/ OpenFetch
  \/ CreateOptimizedImageBitmap
  \/ CreateImageBitmapFallback
  \/ ImageFromUrl
  \/ CanvasDraw
  \/ GetImageData
  \/ FromOffscreenCanvas
  \/ FromHTMLCanvasElement
  \/ FromHTMLImageElement
  \/ FromHTMLVideoElement
  \/ VideoFallback
  \/ FromImageBitmap
  \/ FromImageBitmapTry
  \/ FromImageBitmapFinally
  \/ Construct
  \/ \E given \in 1..MaxDim : Resize(given, 0) \/ Resize(0, given)
  \/ ImageToInputOfResult

vars == <<ocrVars, imgVars, modelVars>>

NextOcr ==
  \/ \E c \in Calls, i \in Instances : Detect(c, i)
  \/ \E c \in Calls : AwaitMutex(c)
  \/ \E c \in Calls : DetectionRun(c)
  \/ \E c \in Calls : RecognitionRun(c)
  \/ \E c \in Calls : Finally(c)

(***************************************************************************)
(* ModelBase.debugImage and ModelBase.debugBoxImage (unnamed/part_000:     *)
(* 67-82), called on the image a normalization returned.                   *)
(***************************************************************************)

\* types.ts:50-54  LineImage.box is a number[][]: a box of no point or of
\* the four corners.  A LineImage is kept as the length of its box.
BoxLengths == {0, 4}

LineImageLists == UNION {[1..n -> BoxLengths] : n \in 0..MaxBoxes}

\* types.ts:78-81  ModelBaseOptions: isDebug and debugOutputDir, "" standing
\* for a directory that is absent or empty.
DebugOptions == [isDebug : BOOLEAN, debugOutputDir : {"", "debug"}]

\* part_000:69 and 77  if (!isDebug || !debugOutputDir) return
Disabled(o) == ~o.isDebug \/ o.debugOutputDir = ""

\* No debug method was called.  call: the method; dpc: where the call
\* stands; lineImages: its argument; drawn: the state of the promise drawBox
\* returned; settled: "returned" for debugImage, the state of the returned
\* promise for debugBoxImage; writes: the calls of image.write; unhandled:
\* the promises of write that rejected; before: the image at the call.
NoDebug ==
  [options |-> [isDebug |-> FALSE, debugOutputDir |-> ""], call |-> "none",
   dpc |-> "idle", lineImages |-> << >>, drawn |-> "none",
   settled |-> "pending", writes |-> 0, unhandled |-> 0, before |-> NoImage]

DebugIdle == debug = NoDebug

\* A model constructed with some options.
InitDebug == debug \in {[NoDebug EXCEPT !.options = o] : o \in DebugOptions}

\* part_001:414  the condition under which write appends the canvas.
Appends(e) ==
  ~IS_WORKER(e) /\ HAS_DOCUMENT(e) /\ CreateCanvas(e) = "HTMLCanvasElement"

\* part_001:435-437  const [first, ...rests] = lineImage.box, then first[0]:
\* a TypeError for a box of no point, where first is undefined.
MoveToThrows(boxLength) == boxLength = 0

\* part_001:435-445  the paths stroked by the loop of drawBox before it ends
\* or throws.
Strokes(ls) ==
  IF \E k \in 1..Len(ls) : MoveToThrows(ls[k])
    THEN (CHOOSE k \in 1..Len(ls) :
            /\ MoveToThrows(ls[k])
            /\ \A j \in 1..(k - 1) : ~MoveToThrows(ls[j])) - 1
    ELSE Len(ls)

\* part_001:430-447  the promise drawBox returns.  The context of the
\* canvas was cached when the constructor put the image data (43-58, 404).
DrawBoxPromise(ls) ==
  IF \E k \in 1..Len(ls) : MoveToThrows(ls[k]) THEN "rejected" ELSE "resolved"

\* part_000:80  await sourceImage.drawBox(lineImages), in no try block: a
\* rejection of drawBox rejects the promise of debugBoxImage.
AfterAwait(drawn) == IF drawn = "rejected" THEN "rejected" ELSE "resolved"

\* part_000:72 and 81  image.write(path), not awaited: the debug state after
\* the call, where bodyOk tells whether document.body.append returned.
AfterWrite(d, e, bodyOk) ==
  [d EXCEPT !.writes = @ + 1,
            !.unhandled = @ + (IF Appends(e) /\ ~bodyOk THEN 1 ELSE 0)]

\* part_000:67-73 ModelBase.debugImage
DebugImage ==
  /\ Returned
  /\ debug.dpc = "idle"
  /\ IF Disabled(debug.options)
       THEN /\ debug' = [debug EXCEPT !.call = "debugImage", !.dpc = "done",
                                      !.settled = "returned",
                                      !.before = image]
            /\ UNCHANGED image
       ELSE \E bodyOk \in BOOLEAN :
              /\ image' = [image EXCEPT !.appended =
                             @ \/ (Appends(env) /\ bodyOk)]
              /\ debug' = [AfterWrite(debug, env, bodyOk) EXCEPT
                             !.call = "debugImage", !.dpc = "done",
                             !.settled = "returned", !.before = image]
  /\ UNCHANGED <<env, input, ipc, taken, outcome, bitmap, canvas, args, heap,
                 callerExpect, ops, first, steps>>
  /\ UNCHANGED <<subject, reshape, modelData, mpc, contexts>>
  /\ UNCHANGED ocrVars

\* part_000:75-80 ModelBase.debugBoxImage up to its await: the body of
\* drawBox runs within the call.
DebugBoxImage(ls) ==
  /\ Returned
  /\ debug.dpc = "idle"
  /\ IF Disabled(debug.options)
       THEN /\ debug' = [debug EXCEPT !.call = "debugBoxImage",
                                      !.dpc = "done", !.lineImages = ls,
                                      !.settled = "resolved",
                                      !.before = image]
            /\ UNCHANGED image
       ELSE /\ image' = [image EXCEPT !.boxes = @ \/ Strokes(ls) > 0]
            /\ debug' = [debug EXCEPT !.call = "debugBoxImage",
                                      !.dpc = "awaitDrawBox",
                                      !.lineImages = ls,
                                      !.drawn = DrawBoxPromise(ls),
                                      !.before = image]
  /\ UNCHANGED <<env, input, ipc, taken, outcome, bitmap, canvas, args, heap,
                 callerExpect, ops, first, steps>>
  /\ UNCHANGED <<subject, reshape, modelData, mpc, contexts>>
  /\ UNCHANGED ocrVars

\* part_000:80-82 ModelBase.debugBoxImage after its await.
DebugBoxImageResume ==
  /\ debug.dpc = "awaitDrawBox"
  /\ IF AfterAwait(debug.drawn) = "rejected"
       THEN /\ debug' = [debug EXCEPT !.dpc = "done", !.settled = "rejected"]
            /\ UNCHANGED image
       ELSE \E bodyOk \in BOOLEAN :
              /\ image' = [image EXCEPT !.appended =
                             @ \/ (Appends(env) /\ bodyOk)]
              /\ debug' = [AfterWrite(debug, env, bodyOk) EXCEPT
                             !.dpc = "done", !.settled = "resolved"]
  /\ UNCHANGED <<env, input, ipc, taken, outcome, bitmap, canvas, args, heap,
                 callerExpect, ops, first, steps>>
  /\ UNCHANGED <<subject, reshape, modelData, mpc, contexts>>
  /\ UNCHANGED ocrVars

NextDebug ==
  \/ From
  \/ Construct
  \/ DebugImage
  \/ \E ls \in LineImageLists : DebugBoxImage(ls)
  \/ DebugBoxImageResume

(***************************************************************************)
(* getContext2D and contextCache (unnamed/part_001:20-58).  A canvas is    *)
(* named by a number; a context object by the number of the order in which *)
(* the platform made it; 0 is null.                                        *)
(***************************************************************************)
Canvases == 1..MaxCanvases

\* No call of getContext2D was made.  cache: contextCache; platform: the
\* context object the platform made for each canvas; issued: the first
\* context getContext2D returned for each canvas; gets: the calls for each
\* canvas; last: the last call, with the context issued before it.
NoContexts ==
  [cache |-> [c \in Canvases |-> 0], platform |-> [c \in Canvases |-> 0],
   issued |-> [c \in Canvases |-> 0], gets |-> [c \in Canvases |-> 0],
   last |-> [canvas |-> 0, options |-> "undefined", result |-> 0, before |-> 0]]

ContextIdle == contexts = NoContexts

\* part_001:45-46  const cached = contextCache.get(canvas); if (cached) return
LookupSkipped(cache, cv) == 0
CachedContext(cache, cv) == cache[cv]

\* part_001:43-58 getContext2D(canvas, options).  On a miss the platform's
\* canvas.getContext('2d', ...) gives null (made = 0), or the context of the
\* canvas, which it makes at the first request.
GetContext2D(cv, options) ==
  /\ contexts.gets[cv] < MaxGets
  /\ \E made \in {0, IF contexts.platform[cv] # 0
                       THEN contexts.platform[cv]
                       ELSE 1 + Cardinality({c \in Canvases :
                                               contexts.platform[c] # 0})} :
       LET cached == CachedContext(contexts.cache, cv)
           ctx == IF cached # 0 THEN cached ELSE made
       IN contexts' =
            [cache |-> IF cached = 0 /\ ctx # 0
                         THEN [contexts.cache EXCEPT ![cv] = ctx]
                         ELSE contexts.cache,
             platform |-> IF cached = 0 /\ ctx # 0
                            THEN [contexts.platform EXCEPT ![cv] = ctx]
                            ELSE contexts.platform,
             issued |-> IF contexts.issued[cv] = 0
                          THEN [contexts.issued EXCEPT ![cv] = ctx]
                          ELSE contexts.issued,
             gets |-> [contexts.gets EXCEPT ![cv] = @ + 1],
             last |-> [canvas |-> cv, options |-> options, result |-> ctx,
                       before |-> contexts.issued[cv]]]
  /\ UNCHANGED <<subject, reshape, modelData, mpc, debug>>
  /\ UNCHANGED <<ocrVars, imgVars>>

NextContext ==
  \E cv \in Canvases, options \in {"undefined", "settings"} :
    GetContext2D(cv, options)

InitSerializer == InitOcr /\ ImageIdle /\ ModelIdle /\ DebugIdle /\ ContextIdle
SpecOcr == InitSerializer /\ [][NextOcr]_vars

InitNormalizer == InitImage /\ InitOcr /\ ModelIdle /\ DebugIdle /\ ContextIdle
SpecImage == InitNormalizer /\ [][NextImage]_vars

InitCaller == InitStorage /\ InitOcr /\ ModelIdle /\ DebugIdle /\ ContextIdle
SpecStorage == InitCaller /\ [][NextStorage]_vars

InitTensor == InitModel /\ InitOcr /\ ImageIdle /\ DebugIdle /\ ContextIdle
SpecTensor == InitTensor /\ [][NextModel]_vars

SpecPipeline == InitNormalizer /\ [][NextPipeline]_vars

SpecTwice == InitNormalizer /\ [][NextTwice]_vars

SpecCore == InitNormalizer /\ [][NextCore]_vars

InitDebugger == InitStorage /\ InitOcr /\ ModelIdle /\ InitDebug /\ ContextIdle
SpecDebug == InitDebugger /\ [][NextDebug]_vars

SpecContext == InitSerializer /\ [][NextContext]_vars

\* The scheduler: a continuation whose promise has settled is run (the
\* microtask queue is drained), and every run body terminates.  Whether and
\* when detect is called is up to the caller.
FairSpecOcr ==
  /\ SpecOcr
  /\ \A c \in Calls : /\ WF_vars(AwaitMutex(c))
                      /\ WF_vars(DetectionRun(c))
                      /\ WF_vars(RecognitionRun(c))
                      /\ WF_vars(Finally(c))

(***************************************************************************)
(* Claims about the call serializer.                                       *)
(***************************************************************************)

\* C1: on one Ocr instance at most one #detectInternal body executes at any
\* time: no two calls made on the same instance are inside their run at once.
C1_MutualExclusion ==
  \A c, d \in Calls :
    (c # d /\ target[c] = target[d]) => ~(Running(c) /\ Running(d))

\* C1's case: detect calls overlap on one instance, one inside its run while
\* two more wait behind it.
C1_Witness ==
  \E c, d, e \in Calls :
    /\ d # e
    /\ target[c] = target[d] /\ target[c] = target[e]
    /\ Running(c) /\ pc[d] = "awaitMutex" /\ pc[e] = "awaitMutex"

\* C2: the runs of one instance start in the order detect was called: when
\* the run of a later call has started, the run of every earlier call on the
\* same instance has started and has finished, whatever its outcome.
C2_FifoOrder ==
  \A a, b \in Calls :
    (a < b /\ target[a] = target[b] /\ target[a] # 0 /\ Started(b))
      => /\ Started(a)
         /\ internalResult[a] # "none"
         /\ \E j, k \in 1..Len(startOrder[target[a]]) :
              /\ j < k
              /\ startOrder[target[a]][j] = a
              /\ startOrder[target[a]][k] = b

\* C2's case: three calls queued on one instance, a mix of a failed and a
\* successful run before the third one starts.
C2_Witness ==
  \E a, b, c \in Calls :
    /\ a < b /\ b < c
    /\ target[a] = target[b] /\ target[b] = target[c]
    /\ internalResult[a] = "fail" /\ internalResult[b] = "ok"
    /\ Started(c)

\* C3: a failed run still releases the mutex, and the call behind it is
\* neither blocked nor failed by it: the promise a settled call created is
\* resolved, a call waiting on a settled call can proceed, and every settled
\* call ran its own body and settled with that body's outcome.
C3_FailureIsolated ==
  \A c \in Calls :
    /\ pc[c] = "settled" =>
         /\ promiseState[c] = "resolved"
         /\ internalResult[c] # "none"
         /\ detectResult[c] = internalResult[c]
    /\ (pc[c] = "awaitMutex" /\ currentMutex[c] \in Calls
          /\ pc[currentMutex[c]] = "settled")
         => promiseState[currentMutex[c]] = "resolved"

\* C3's case: a call failed, and the call queued behind it on the same
\* instance ran and succeeded.
C3_Witness ==
  \E a, b \in Calls :
    /\ currentMutex[b] = a
    /\ detectResult[a] = "fail"
    /\ detectResult[b] = "ok"

\* C4: no deadlock: under the scheduler's fairness, with run bodies that
\* terminate, every scheduled detect call eventually starts its run and
\* eventually settles.
C4_NoDeadlock ==
  \A c \in Calls :
    (pc[c] = "awaitMutex") ~> (Started(c) /\ pc[c] = "settled")

\* C4's case: a call that was queued behind a failed call has settled.
C4_Witness ==
  \E a, b \in Calls :
    /\ currentMutex[b] = a
    /\ internalResult[a] = "fail"
    /\ pc[b] = "settled"

(***************************************************************************)
(* Claims about the normalizer.                                            *)
(***************************************************************************)

\* The call was given, or acquired, a bitmap and has returned or thrown.
BitmapCallEnded == ipc = "done" /\ bitmap.state # "none"

\* C5: ImageRaw.fromImageBitmap releases the bitmap on every path: whenever
\* the call has returned or thrown, bitmap.close() has been called on the
\* handle it was passed.
C5_AlwaysClosed == BitmapCallEnded => bitmap.closeCalls >= 1

\* C6: a bitmap passed to ImageRaw.fromImageBitmap is closed exactly once
\* when the conversion succeeds and when it fails because the 2D context of
\* the new canvas cannot be created.
C6_ClosedExactlyOnce ==
  (BitmapCallEnded /\ outcome \in {"ok", ErrCreate2D}) => bitmap.closeCalls = 1

\* C6's case: the context of the new canvas could not be created for a
\* caller's bitmap, and the call has thrown.
C6_Witness ==
  /\ BitmapCallEnded
  /\ bitmap.owner = "caller"
  /\ outcome = ErrCreate2D
  /\ bitmap.state = "closed"

\* The canonical pixel data of the specification: numeric width and height
\* and a data field of one of the two byte array types.
CanonicalShape(in) ==
  /\ in.kind = "object"
  /\ in.dataType \in {"Uint8Array", "Uint8ClampedArray"}
  /\ in.widthKind = "number"
  /\ in.heightKind = "number"

\* The input variants ImageRaw.from supports.
SupportedVariant(in) ==
  \/ in.kind \in {"string", "ImageBitmap", "OffscreenCanvas"} \cup ElementKinds
  \/ CanonicalShape(in)

\* C7: ImageRaw.from of an input that is none of the supported variants
\* fails with the unsupported-input error in every environment: it neither
\* returns an image nor fails with another error.
C7_UnsupportedRejected ==
  (ipc = "done" /\ ~SupportedVariant(input)) => outcome = ErrUnsupported

\* The errors that say the execution context lacks a capability.
CapabilityMissing ==
  {ErrImageInWorker, ErrCanvasInWorker, ErrVideoInWorker, ErrNoCanvas,
   ErrNoCreateImageBitmap, ErrCannotLoad}

\* C8: in a worker-like context (no window, no document) ImageRaw.from of an
\* image, canvas or video element handle fails with a capability-missing
\* error, for each of the three.
C8_ElementsInWorker ==
  (ipc = "done" /\ IS_WORKER(env) /\ input.kind \in ElementKinds)
    => outcome \in CapabilityMissing

\* C9: ImageRaw.from recognizes an object as canonical pixel data exactly
\* when its width and height are numbers and its data is a Uint8Array or a
\* Uint8ClampedArray: an object whose width or height is present but not a
\* number is not taken to the constructor.
C9_CanonicalRecognized ==
  (taken # "none" /\ input.kind = "object")
    => ((taken = "constructor") <=> CanonicalShape(input))

\* C10: the image made of canonical data backed by a Uint8Array shares no
\* storage with the caller's array: its data lives in another buffer, holds
\* the bytes the image stored whatever the caller writes afterwards, and no
\* method of the image changes the bytes of the caller's array.
C10_NoAliasing ==
  (image.made /\ input.dataType = "Uint8Array")
    => /\ image.dataBuf # CallerBuf
       /\ image.imageDataBuf # CallerBuf
       /\ heap[image.dataBuf] = image.stored
       /\ heap[CallerBuf] = callerExpect

\* C10's case: after the image was made of a Uint8Array, the caller wrote a
\* byte of its array that the image still holds with its old value.
C10_Witness ==
  /\ image.made
  /\ input.dataType = "Uint8Array"
  /\ ops > 0
  /\ \E i \in 1..Len(callerExpect) :
       /\ callerExpect[i] # CallerBytes(input)[i]
       /\ heap[image.dataBuf][i] = CallerBytes(input)[i]

(***************************************************************************)
(* Claims about the tensor conversion.                                     *)
(***************************************************************************)

\* The 2x1 image of the scenario: a red pixel, then a green pixel.
ScenarioImage ==
  [data |-> <<255, 0, 0, 255, 0, 255, 0, 255>>, width |-> 2, height |-> 1]

ScenarioConverted ==
  mpc = "done" /\ subject = ScenarioImage /\ reshape = DefaultReshape

\* C11 as stated: imageToInput of the 2x1 buffer [255,0,0,255, 0,255,0,255]
\* with mean [0,0,0] and std [1,1,1] gives a tensor whose first channel
\* plane (index 0 of the output) at pixel 0 is 1.0, the red value of pixel 0.
C11_FirstPlaneHoldsRed ==
  ScenarioConverted => modelData.data[1] = One

\* C11 as amended: the red value 1.0 of pixel 0 is at pixel 0 of the third
\* channel plane (index 2 * pixelCount = 4 of the output); the first plane
\* (index 0) holds the blue value of pixel 0, which is 0.0.
C11_LastPlaneHoldsRed ==
  ScenarioConverted
    => /\ modelData.data[2 * PixelCount(ScenarioImage) + 1] = One
       /\ modelData.data[1] = Zero

\* C11's case: the scenario's image was converted with the default options.
C11_Witness ==
  /\ ScenarioConverted
  /\ Len(modelData.data) = 6

\* The tensor is planar in reversed channel order: the element of pixel p in
\* the plane of colour channel c (0: R, 1: G, 2: B) is element (2-c)*P + p.
PlanarReversed(img, opts, md) ==
  LET P == Len(img.data) \div 4
  IN /\ DOMAIN md.data = 1..(3 * P)
     /\ \A p \in 0..(P - 1), c \in 0..2 :
          md.data[(2 - c) * P + p + 1]
            = Normalized(img.data[4 * p + c + 1], opts.mean[c + 1], opts.std[c + 1])

\* C12: for every RGBA buffer of P pixels, output[(2-c)*P + p] is
\* (data[4p+c]/255 - mean[c]) / std[c] for every pixel p and colour channel
\* c; these are all the elements of the output, so the alpha byte data[4p+3]
\* influences none of them; and the conversion leaves the input buffer as
\* it was.
C12_PlanarReversedOrder ==
  [][mpc' = "done" => (PlanarReversed(subject, reshape, modelData)'
                        /\ subject' = subject)]_vars

\* C12's case: an image of several pixels, one of them transparent with
\* three different channel values, converted with a per-channel mean and std.
C12_Witness ==
  /\ mpc = "done"
  /\ reshape # DefaultReshape
  /\ PixelCount(subject) >= 2
  /\ \E p \in 0..(PixelCount(subject) - 1) : subject.data[4 * p + 4] = 0
  /\ \E k, m \in DOMAIN modelData.data : modelData.data[k] # modelData.data[m]

RECURSIVE Product(_)
Product(dims) == IF dims = << >> THEN 1 ELSE Head(dims) * Product(Tail(dims))

\* C13: the data imageToInput returns has exactly 3 * width * height
\* elements, for the width and height returned with it: as many as the
\* tensor of dims [1, 3, height, width] that runModel makes of it.
C13_TensorLength ==
  mpc = "done"
    => /\ Len(modelData.data) = 3 * modelData.width * modelData.height
       /\ Len(modelData.data) = Product(TensorDims(modelData))

\* C13's case: an image that is not square, returned by ImageRaw.from and
\* resized since, was converted.
C13_Witness ==
  /\ mpc = "done"
  /\ ops > 0
  /\ modelData.width # modelData.height
  /\ modelData.width # input.width

(***************************************************************************)
(* Claims about the pipeline of one detect call.                           *)
(***************************************************************************)

\* C14: detect is all-or-nothing per call: recognition is invoked only after
\* the detection of the same call has succeeded, and with that detection's
\* line images; when detection or recognition fails, detect rejects with
\* that failure and carries no texts and no resized dimensions; otherwise
\* it fulfils with the texts and the dimensions of this call.
C14_AllOrNothing ==
  \A c \in Calls :
    /\ pc[c] = "recognition"
         => (run[c].lineImages = DetectionResult(c) /\ run[c].thrown = "none")
    /\ run[c].recognitionArg # 0
         => (run[c].lineImages = DetectionResult(c)
              /\ run[c].recognitionArg = DetectionResult(c))
    /\ run[c].thrown = "detection" => run[c].recognitionArg = 0
    /\ (pc[c] = "settled" /\ run[c].thrown # "none")
         => run[c].settled = [status |-> "rejected", error |-> run[c].thrown]
    /\ (pc[c] = "settled" /\ run[c].thrown = "none")
         => run[c].settled = [status |-> "fulfilled", texts |-> c,
                              resized |-> DetectionResult(c)]

\* C14's case: one call was rejected by a failed recognition after its
\* detection had succeeded, one by a failed detection, and one fulfilled.
C14_Witness ==
  \E a, b, c \in Calls :
    /\ pc[a] = "settled" /\ run[a].thrown = "recognition" /\ run[a].lineImages # 0
    /\ pc[b] = "settled" /\ run[b].thrown = "detection"
    /\ pc[c] = "settled" /\ run[c].settled.status = "fulfilled"

\* C15: two Ocr instances do not contend: a detect call that cannot proceed
\* waits on a promise made by an unsettled call on its own instance, a call
\* with no unsettled earlier call on its own instance can proceed whatever
\* the calls on other instances are doing, and nothing keeps the runs of two
\* instances from overlapping.
C15_InstancesIndependent ==
  \A c \in Calls :
    pc[c] = "awaitMutex" =>
      /\ ~CanProceed(c) =>
           /\ currentMutex[c] \in Calls
           /\ target[currentMutex[c]] = target[c]
           /\ pc[currentMutex[c]] # "settled"
      /\ (\A d \in Calls : (d < c /\ target[d] = target[c]) => pc[d] = "settled")
           => CanProceed(c)

\* C15's case: the runs of two instances overlap, while a later call made on
\* one of them waits for its own instance only.
C15_Witness ==
  \E a, b, c \in Calls :
    /\ target[a] # target[b]
    /\ Running(a) /\ Running(b)
    /\ a < b /\ b < c
    /\ target[c] = target[a]
    /\ pc[c] = "awaitMutex"

(***************************************************************************)
(* Claims about the normalizer applied to its own result.                  *)
(***************************************************************************)

\* ImageRaw.from(r) has ended for an image r that ImageRaw.from returned.
SecondCallEnded == first.made /\ ipc = "done"

\* The image the second call returned has the width, the height and the
\* bytes of r, and r still has the bytes it had.
SameAsFirst ==
  /\ image.made
  /\ image.width = first.width /\ image.widthKind = first.widthKind
  /\ image.height = first.height /\ image.heightKind = first.heightKind
  /\ heap[image.dataBuf] = first.bytes
  /\ heap[first.dataBuf] = first.bytes

MainThread(e) == e.window /\ e.document

\* C18: in a main-thread context a video element whose readyState is below
\* 2 fails normalization with the not-ready error, and no bitmap and no
\* canvas is created, drawn or read for it at any point of the call.
C18_VideoNotReady ==
  (input.kind = "HTMLVideoElement" /\ input.readyState < 2 /\ MainThread(env))
    => /\ bitmap = NoBitmap
       /\ canvas = NoCanvas
       /\ heap = << >>
       /\ ~image.made
       /\ ipc = "done" => outcome = ErrVideoNotReady

\* C18's case: the call has thrown for a video element of readyState 1, on
\* a main thread that has createImageBitmap and a canvas.
C18_Witness ==
  /\ ipc = "done"
  /\ input.kind = "HTMLVideoElement"
  /\ input.readyState = 1
  /\ MainThread(env)
  /\ HAS_CREATE_IMAGE_BITMAP(env)
  /\ outcome = ErrVideoNotReady

(***************************************************************************)
(* Claims about retries.                                                   *)
(***************************************************************************)

\* The normalization has ended in a failure that its caller sees.
FailureSeen == outcome \notin {"pending", "ok"}

\* No stage of a detect call is run twice, and a stage's failure is what
\* detect rejects with.
DetectNeverRetries ==
  \A c \in Calls :
    /\ run[c].detections <= 1
    /\ run[c].recognitions <= 1
    /\ (run[c].thrown # "none" /\ pc[c] = "settled")
         => run[c].settled = [status |-> "rejected", error |-> run[c].thrown]

\* C19 as stated: no operation is retried: within a normalization or a
\* detect call no step is attempted a second time, and once a step has
\* failed its failure is what the caller sees.
C19_NoRetryAnywhere ==
  /\ \A n \in StepNames :
       /\ steps.tries[n] <= 1
       /\ steps.failed[n] > 0 => FailureSeen
  /\ DetectNeverRetries

\* C19 as amended: the one retry is createImageBitmap, which is attempted a
\* second time, without options, exactly when the attempt with options
\* failed, and never a third time; the caller sees a failure when the second
\* attempt failed too.  No other step is attempted twice, and the failure of
\* any other step is what the caller sees.
C19_NoRetryButBitmapOptions ==
  /\ \A n \in StepNames \ {"createImageBitmap"} :
       /\ steps.tries[n] <= 1
       /\ steps.failed[n] > 0 => FailureSeen
  /\ steps.tries["createImageBitmap"] <= 2
  /\ steps.tries["createImageBitmap"] = 2
       => steps.failed["createImageBitmap"] >= 1
  /\ (steps.failed["createImageBitmap"] = 1
        /\ steps.tries["createImageBitmap"] = 1)
       => (ipc = "createImageBitmap" /\ outcome = "pending")
  /\ steps.failed["createImageBitmap"] = 2 => FailureSeen
  /\ DetectNeverRetries

\* C19's case: createImageBitmap failed with options and succeeded without,
\* and the call returned an image; and a detect call was rejected by its
\* failed detection.
C19_Witness ==
  /\ steps.tries["createImageBitmap"] = 2
  /\ ipc = "done"
  /\ outcome = "ok"
  /\ steps.tries["constructor"] = 1
  /\ pc[1] = "settled"
  /\ run[1].thrown = "detection"

(***************************************************************************)
(* Claims about the debug sink.                                            *)
(***************************************************************************)

\* No failure of a debug method reaches its caller.
DebugFailureNotPropagated == debug.settled # "rejected"

\* A debug method called while debugging is disabled changed nothing of the
\* image and wrote nothing.
DisabledIsNoOp ==
  (debug.dpc = "done" /\ Disabled(debug.options))
    => (image = debug.before /\ debug.writes = 0 /\ debug.drawn = "none")

\* C20: debug-sink errors are ignored: with debugging enabled, a failure of
\* writing a debug image or of drawing the debug boxes is not propagated by
\* debugImage / debugBoxImage; with debugging disabled both are no-ops that
\* touch neither the image nor storage.
C20_DebugSinkErrorsIgnored ==
  /\ DebugFailureNotPropagated
  /\ DisabledIsNoOp

(***************************************************************************)
(* Claims about the bitmaps the normalizer acquires.                       *)
(***************************************************************************)

\* The normalization that acquired a bitmap of its own has returned or
\* thrown.
AcquiredCallEnded == ipc = "done" /\ bitmap.owner = "normalizer"

\* C21: a bitmap the normalizer acquired itself (createOptimizedImageBitmap
\* in ImageRaw.open, fromHTMLImageElement, fromHTMLVideoElement) is released
\* exactly once on every path of the normalization, the paths where a later
\* step fails included.
C21_AcquiredReleasedOnce == AcquiredCallEnded => bitmap.closeCalls = 1

\* C22: within a normalization a bitmap is never read after it was
\* released: drawImage finds the bitmap open, every use of the bitmap and
\* every read of the pixels drawn from it comes before bitmap.close(), and
\* nothing touches the bitmap after the close, on any path.
C22_NeverReadAfterRelease ==
  /\ ~bitmap.late
  /\ ipc = "fromImageBitmap:try" => (bitmap.state = "open" /\ bitmap.closeCalls = 0)
  /\ (bitmap.draws > 0 /\ bitmap.closeCalls = 0)
       => ipc \in {"constructor", "fromImageBitmap:finally"}

\* C22's case: the bitmap was drawn, its pixels were read, the image was
\* made of them, and then the bitmap was closed.
C22_Witness ==
  /\ ipc = "done"
  /\ outcome = "ok"
  /\ bitmap.draws = 1
  /\ bitmap.pixelReads = 1
  /\ bitmap.state = "closed"
  /\ bitmap.closeCalls = 1

(***************************************************************************)
(* Claims about the context cache.                                         *)
(***************************************************************************)

\* C23: getContext2D is idempotent per surface: once it has returned a
\* context for a canvas, every later call for that canvas, with any
\* options, returns the same context; a call for another canvas never
\* returns it; a null result is not cached.
C23_ContextIdempotent ==
  /\ contexts.last.before # 0 => contexts.last.result = contexts.last.before
  /\ \A c, d \in Canvases :
       (c # d /\ contexts.issued[c] # 0) => contexts.issued[d] # contexts.issued[c]
  /\ \A c \in Canvases : contexts.cache[c] = contexts.issued[c]
  /\ (contexts.last.canvas # 0 /\ contexts.last.result = 0)
       => contexts.cache[contexts.last.canvas] = 0

\* C23's case: the third call for one canvas, made with options, returned
\* the context issued for it before, and another canvas has a context of
\* its own.
C23_Witness ==
  /\ contexts.last.canvas # 0
  /\ contexts.last.before # 0
  /\ contexts.last.options = "settings"
  /\ contexts.last.result = contexts.last.before
  /\ contexts.gets[contexts.last.canvas] = 3
  /\ \E d \in Canvases : d # contexts.last.canvas /\ contexts.issued[d] # 0

(***************************************************************************)
(* Claims about the state of the tail promise.                             *)
(***************************************************************************)

\* Call c was scheduled on instance i and has not yet left its finally
\* block.
Unfinished(c, i) == target[c] = i /\ pc[c] \notin {"idle", "settled"}

\* C24: the tail promise #mutex of an instance is unresolved exactly when a
\* detect call scheduled on the instance has not finished; it is never
\* rejected; once every scheduled call has settled it is resolved, so that
\* a call made on an idle instance finds the promise it awaits resolved.
C24_MutexPendingIffBusy ==
  \A i \in Instances :
    /\ promiseState[mutex[i]] = "pending" <=> \E c \in Calls : Unfinished(c, i)
    /\ promiseState[mutex[i]] # "rejected"
    /\ (\A c \in Calls : ~Unfinished(c, i)) => promiseState[mutex[i]] = "resolved"
    /\ \A c \in Calls :
         (/\ target[c] = i
          /\ pc[c] = "awaitMutex"
          /\ \A d \in Calls \ {c} : ~Unfinished(d, i))
           => promiseState[currentMutex[c]] = "resolved"

\* C24's case: on an instance whose earlier call failed and has settled, a
\* further call waits at its await with nothing ahead of it, and another
\* instance is idle again after a call of its own.
C24_Witness ==
  /\ target[1] = 1 /\ pc[1] = "settled" /\ detectResult[1] = "fail"
  /\ \E c \in Calls \ {1} :
       /\ target[c] = 1
       /\ pc[c] = "awaitMutex"
       /\ \A d \in Calls \ {c} : ~Unfinished(d, 1)
       /\ promiseState[mutex[1]] = "pending"
  /\ \E d \in Calls : target[d] = 2 /\ pc[d] = "settled"
  /\ promiseState[mutex[2]] = "resolved"

=============================================================================
